---- MODULE Spec2Model ----
(***************************************************************************)
(* certchain: a Flask node (src/bin/blockchain.py) holding one Certchain   *)
(* instance: a chain of blocks, a buffer of pending certificates, a        *)
(* proof-of-work gate, and three routes (/mine, /transactions/new,         *)
(* /chain).  The routes run on the threads of the development server and   *)
(* share the instance without any lock, so every route is modelled as the  *)
(* sequence of its reads and writes of the shared instance.                *)
(*                                                                         *)
(* Python objects that are shared by reference are kept in a heap:         *)
(* `heap[id]` is the content of the list object `id`; a block's            *)
(* 'certificates' entry and `current_certificates` hold list ids.  A block *)
(* dict never changes after its literal is evaluated, the chain list is    *)
(* only appended to, so a block object is identified by its position.      *)
(***************************************************************************)
EXTENDS Integers, Sequences, FiniteSets, TLC

VARIABLES
    chain,                  \* Certchain.chain: sequence of block dicts
    current_certificates,   \* Certchain.current_certificates: a list id
    heap,                   \* list id -> content of that list object
    now,                    \* last value time() returned
    req,                    \* per request: position in its route and its locals
    accepted,               \* history: ids of the records appended, in order
    sealed,                 \* history: each block as it read when it was appended
    call                    \* history: the last direct call of a Certchain method

vars == <<chain, current_certificates, heap, now, req, accepted, sealed, call>>

----------------------------------------------------------------------------
(* Bounds of the model *)

MaxRequests == 2    \* requests served over the life of the process
MaxTime == 1        \* time() ranges over 0..MaxTime
MaxCalls == 3       \* direct method calls made by a single-threaded caller
MaxLastProof == 8   \* proof_of_work is called with last_proof in 0..MaxLastProof

(* Constants of the program *)

GenesisProof == 100
GenesisPreviousHash == 1
DefaultPreviousHash == 100

Requests == 1..MaxRequests

\* one request more, for the runs that take three overlapping requests
WideRequests == 1..(MaxRequests + 1)

----------------------------------------------------------------------------
(* Python / JSON values.  The tag `t` is compared before the payload `v`. *)

PyInt(n) == [t |-> "int", v |-> n]
PyStr(s) == [t |-> "str", v |-> s]

\* truth value of an int or str operand of `or`
Truthy(x) == IF x.t = "int" THEN x.v # 0 ELSE x.v # <<>>

\* str(n) of a non-negative int, as its decimal digits
RECURSIVE DecimalStr(_)
DecimalStr(n) == IF n < 10 THEN <<n>> ELSE Append(DecimalStr(n \div 10), n % 10)

\* hashlib.sha256(bytes).hexdigest() on a digit string, scaled down: the digest
\* is a value below 41 written as five hex characters, so that "four leading
\* zero characters" is decided by the value being below 16 and a search ends
\* after a few candidates.
RECURSIVE DigestValue(_, _)
DigestValue(h, bytes) ==
    IF bytes = <<>> THEN h
    ELSE DigestValue((h * 37 + Head(bytes) + 6) % 41, Tail(bytes))

sha256_hexdigest(bytes) ==
    LET d == DigestValue(4, bytes)
    IN  [i \in 1..5 |-> (d \div (16 ^ (5 - i))) % 16]

valid_proof(last_proof, proof) ==
    LET guess == DecimalStr(last_proof) \o DecimalStr(proof)
        guess_hash == sha256_hexdigest(guess)
    IN  SubSeq(guess_hash, 1, 4) = <<0, 0, 0, 0>>

RECURSIVE proof_of_work_from(_, _)
proof_of_work_from(last_proof, proof) ==
    IF valid_proof(last_proof, proof) = FALSE
    THEN proof_of_work_from(last_proof, proof + 1)
    ELSE proof

\* a search that starts at 1
proof_of_work_from_one(last_proof) == proof_of_work_from(last_proof, 1)

proof_of_work(last_proof) == proof_of_work_from(last_proof, 0)

----------------------------------------------------------------------------
(* json.dumps(block, sort_keys=True) and Certchain.hash *)

Alphabet ==
    << "certificate_id", "certificate_name", "certificates", "certifier",
       "certifier_name", "expiration_date", "index", "previous_hash", "proof",
       "recipient", "timestamp" >>

KeyRank(k) == CHOOSE i \in 1..Len(Alphabet) : Alphabet[i] = k

RECURSIVE InsertItem(_, _)
InsertItem(x, s) ==
    IF s = <<>> THEN <<x>>
    ELSE IF KeyRank(x[1]) <= KeyRank(Head(s)[1]) THEN <<x>> \o s
    ELSE <<Head(s)>> \o InsertItem(x, Tail(s))

RECURSIVE SortKeys(_)
SortKeys(items) ==
    IF items = <<>> THEN <<>> ELSE InsertItem(Head(items), SortKeys(Tail(items)))

\* the (key, value) pairs of a certificate dict, in the order of its literal
CertificateItems(c) ==
    << <<"certifier", c.certifier>>, <<"certifier_name", c.certifier_name>>,
       <<"recipient", c.recipient>>, <<"certificate_id", c.certificate_id>>,
       <<"certificate_name", c.certificate_name>>,
       <<"expiration_date", c.expiration_date>> >>

\* the (key, value) pairs of a block dict, in the order of its literal; `certs`
\* is the content of the list the block refers to
BlockItems(b, certs) ==
    << <<"index", b.index>>, <<"timestamp", b.timestamp>>,
       <<"certificates", [k \in 1..Len(certs) |-> SortKeys(CertificateItems(certs[k]))]>>,
       <<"proof", b.proof>>, <<"previous_hash", b.previous_hash>> >>

\* json.dumps(block) without sort_keys: the items in the dict's own order
dumps_unsorted(items) == items

\* json.dumps(block, sort_keys=True) of a dict given by its items in the order
\* they were inserted
dumps_sorted(items) == SortKeys(items)

json_dumps(b, certs) == dumps_sorted(BlockItems(b, certs))

\* Certchain.hash: the digest of the canonical text, taken as collision-free
hash(b, hp) == PyStr(<<"sha256", json_dumps(b, hp[b.certificates])>>)

\* Certchain.hash of a dict given by its items in the order they were inserted
hash_items(items) == PyStr(<<"sha256", dumps_sorted(items)>>)

\* the dict with the same items inserted in the order `q`
Reorder(items, q) == [n \in 1..Len(items) |-> items[q[n]]]

----------------------------------------------------------------------------
(* Certchain.new_block, piece by piece *)

NewIndexStale(ch) == Len(ch)

NewIndex(ch) == Len(ch) + 1

PreviousHashOr(previous_hash, ch, hp) ==
    IF Truthy(previous_hash) THEN previous_hash ELSE hash(ch[Len(ch)], hp)

NoBlock ==
    [index |-> 0, timestamp |-> 0, certificates |-> 0, proof |-> 0,
     previous_hash |-> PyInt(0)]

\* the store: [chain, current_certificates, heap]
Store(ch, cur, hp) == [chain |-> ch, current_certificates |-> cur, heap |-> hp]

BlockLiteral(st, proof, previous_hash, ts) ==
    [index |-> NewIndex(st.chain),
     timestamp |-> ts,
     certificates |-> st.current_certificates,
     proof |-> proof,
     previous_hash |-> PreviousHashOr(previous_hash, st.chain, st.heap)]

\* self.current_certificates = []: a fresh list object
ResetKeepsList(st) == st

ResetCurrent(st) ==
    [st EXCEPT !.heap = Append(st.heap, <<>>),
               !.current_certificates = Len(st.heap) + 1]

AppendBlock(st, block) == [st EXCEPT !.chain = Append(st.chain, block)]

\* one uninterrupted call of new_block: the store it leaves and what it returns
new_block(st, proof, previous_hash, ts) ==
    LET block == BlockLiteral(st, proof, previous_hash, ts)
    IN  [store |-> AppendBlock(ResetCurrent(st), block), ret |-> block]

\* Certchain.__init__
EmptyStore == Store(<<>>, 1, << <<>> >>)

Constructed ==
    new_block(EmptyStore, GenesisProof, PyInt(GenesisPreviousHash), 0).store

----------------------------------------------------------------------------
(* Request bodies of POST /transactions/new *)

JStr(s) == [t |-> "str", v |-> s]
JNum(n) == [t |-> "num", v |-> n]

Required ==
    << "certifier", "certifier_name", "recipient", "certificate_id",
       "certificate_name", "expiration_date" >>

NoValues == [k \in {} |-> JStr("")]

Payload(n) ==
    CASE n = 1 ->
            [certifier |-> JStr("A"), certifier_name |-> JStr("Alice Inc"),
             recipient |-> JStr("B"), certificate_id |-> JNum(1),
             certificate_name |-> JStr("Cert1"),
             expiration_date |-> JStr("2030-01-01")]
      [] n = 2 ->
            [certifier |-> JStr(""), certifier_name |-> JStr("Alice Inc"),
             recipient |-> JStr("B"), certificate_id |-> JStr("x"),
             certificate_name |-> JStr("Cert2"),
             expiration_date |-> JStr("soon")]
      [] n = 3 ->
            [certifier |-> JStr("A"), certifier_name |-> JStr("Alice Inc"),
             recipient |-> JStr("B"), certificate_id |-> JNum(1),
             certificate_name |-> JStr("Cert1")]
      [] OTHER ->
            [certifier_name |-> JStr("Alice Inc"),
             recipient |-> JStr("B"), certificate_id |-> JNum(1),
             certificate_name |-> JStr("Cert1"),
             expiration_date |-> JStr("2030-01-01")]

Payloads == 1..4

\* a check that forgets the last required key
AllPresentButLast(values) ==
    \A i \in 1..(Len(Required) - 1) : Required[i] \in DOMAIN values

AllPresent(values) == \A i \in 1..Len(Required) : Required[i] \in DOMAIN values

\* the dict new_certificate appends; `rid` names the request that made it
CertificateDict(values, rid) ==
    [certifier |-> values["certifier"], certifier_name |-> values["certifier_name"],
     recipient |-> values["recipient"], certificate_id |-> values["certificate_id"],
     certificate_name |-> values["certificate_name"],
     expiration_date |-> values["expiration_date"], rid |-> rid]

\* self.current_certificates.append({...}) on the list object `lst`
AppendCertificate(hp, lst, values, rid) ==
    [hp EXCEPT ![lst] = Append(hp[lst], CertificateDict(values, rid))]

\* self.last_block['index'] + 1
LastIndexPlusOne(ch) == ch[Len(ch)].index + 1

----------------------------------------------------------------------------
\* what jsonify writes for a block: the block with its list's content
BlockView(b, hp) ==
    [index |-> b.index, timestamp |-> b.timestamp,
     certificates |-> hp[b.certificates], proof |-> b.proof,
     previous_hash |-> b.previous_hash]

ChainView(ch, hp) == [k \in 1..Len(ch) |-> BlockView(ch[k], hp)]

NoCall ==
    [n |-> 0, op |-> "none", prev_op |-> "none", proof |-> 0,
     previous_hash |-> PyInt(0), pre |-> EmptyStore,
     ret_block |-> NoBlock, ret_index |-> 0,
     last_proof |-> 0, ret_proof |-> 0,
     hashed |-> 0, order |-> <<>>, ret_hash |-> PyStr(<<>>)]

----------------------------------------------------------------------------
(* State after construction *)

IdleRequest ==
    [kind |-> "none", pc |-> "idle", values |-> NoValues,
     last_block |-> 0, last_proof |-> 0, proof |-> 0,
     previous_hash |-> PyInt(0), block |-> NoBlock, lst |-> 0,
     status |-> 0, index |-> 0, length |-> 0, snapshot |-> <<>>,
     len_first |-> 0,     \* history: len(chain) when new_certificate was entered
     len_last |-> 0,      \* history: len(chain) when new_certificate returned
     sealed_pos |-> 0,    \* history: where on the chain this request appended
     overlapped |-> FALSE] \* history: another /mine ran while this one ran

Init ==
    /\ chain = Constructed.chain
    /\ current_certificates = Constructed.current_certificates
    /\ heap = Constructed.heap
    /\ now = 0
    /\ req = [i \in WideRequests |-> IdleRequest]
    /\ accepted = <<>>
    /\ sealed = ChainView(Constructed.chain, Constructed.heap)
    /\ call = NoCall

StoreNow == Store(chain, current_certificates, heap)

\* a request that has ended: its locals are gone; its body, its response and
\* its history are kept
Ended(r, status) ==
    [IdleRequest EXCEPT !.kind = r.kind, !.pc = "done", !.status = status,
                        !.values = r.values, !.len_first = r.len_first,
                        !.sealed_pos = r.sealed_pos]

\* a request arrives: requests are numbered in their order of arrival
Arrives(i) ==
    /\ req[i].pc = "idle"
    /\ \A j \in 1..(i - 1) : req[j].pc # "idle"

----------------------------------------------------------------------------
(* GET /mine *)

\* a /mine request that has started and not yet responded
MineActive(j) == req[j].kind = "mine" /\ req[j].pc # "done"

\* last_block = certchain.last_block; last_proof = last_block['proof']
MineReadLast(i) ==
    /\ Arrives(i)
    /\ req' = [j \in DOMAIN req |->
                IF j = i
                THEN [req[i] EXCEPT !.kind = "mine", !.pc = "m_pow",
                                    !.last_block = Len(chain),
                                    !.last_proof = chain[Len(chain)].proof,
                                    !.overlapped = \E k \in DOMAIN req : MineActive(k)]
                ELSE IF MineActive(j) THEN [req[j] EXCEPT !.overlapped = TRUE]
                ELSE req[j]]
    /\ UNCHANGED <<chain, current_certificates, heap, now, accepted, sealed, call>>

\* proof = certchain.proof_of_work(last_proof)
MineProofOfWork(i) ==
    /\ req[i].pc = "m_pow"
    /\ req' = [req EXCEPT ![i].pc = "m_hash",
                          ![i].proof = proof_of_work(req[i].last_proof)]
    /\ UNCHANGED <<chain, current_certificates, heap, now, accepted, sealed, call>>

\* previous_hash = certchain.hash(last_block)
MineHash(i) ==
    /\ req[i].pc = "m_hash"
    /\ req' = [req EXCEPT ![i].pc = "nb_index",
                          ![i].previous_hash = hash(chain[req[i].last_block], heap)]
    /\ UNCHANGED <<chain, current_certificates, heap, now, accepted, sealed, call>>

\* new_block: 'index': len(self.chain) + 1, 'timestamp': time()
NewBlockIndex(i) ==
    /\ req[i].pc = "nb_index"
    /\ \E ts \in now..MaxTime :
        /\ now' = ts
        /\ req' = [req EXCEPT ![i].pc = "nb_certs",
                              ![i].block = [NoBlock EXCEPT !.index = NewIndex(chain),
                                                           !.timestamp = ts]]
    /\ UNCHANGED <<chain, current_certificates, heap, accepted, sealed, call>>

\* new_block: 'certificates': self.current_certificates, 'proof': proof,
\* 'previous_hash': previous_hash or self.hash(self.chain[-1])
NewBlockCertificates(i) ==
    /\ req[i].pc = "nb_certs"
    /\ req' = [req EXCEPT ![i].pc = "nb_reset",
                          ![i].block = [req[i].block EXCEPT
                              !.certificates = current_certificates,
                              !.proof = req[i].proof,
                              !.previous_hash =
                                  PreviousHashOr(req[i].previous_hash, chain, heap)]]
    /\ UNCHANGED <<chain, current_certificates, heap, now, accepted, sealed, call>>

\* new_block: self.current_certificates = []
NewBlockReset(i) ==
    /\ req[i].pc = "nb_reset"
    /\ LET st == ResetCurrent(StoreNow)
       IN  /\ heap' = st.heap
           /\ current_certificates' = st.current_certificates
    /\ req' = [req EXCEPT ![i].pc = "nb_append"]
    /\ UNCHANGED <<chain, now, accepted, sealed, call>>

\* new_block: self.chain.append(block); return block
NewBlockAppend(i) ==
    /\ req[i].pc = "nb_append"
    /\ chain' = AppendBlock(StoreNow, req[i].block).chain
    /\ sealed' = Append(sealed, BlockView(req[i].block, heap))
    /\ req' = [req EXCEPT ![i].pc = "m_resp", ![i].sealed_pos = Len(chain) + 1]
    /\ UNCHANGED <<current_certificates, heap, now, accepted, call>>

\* the keys of the dict new_block builds
BlockKeys == {"index", "timestamp", "certificates", "proof", "previous_hash"}

\* the keys mine() reads from the block for its response
ResponseKeys == <<"index", "transactions", "proof", "previous_hash">>

\* response = {..., 'transactions': block['transactions'], ...}: block[k] of a
\* key the block lacks raises KeyError and the request ends with status 500;
\* otherwise the response carries the block's entries with status 200
MineRespond(i) ==
    /\ req[i].pc = "m_resp"
    /\ req' = [req EXCEPT ![i] =
            IF \A n \in 1..Len(ResponseKeys) : ResponseKeys[n] \in BlockKeys
            THEN [Ended(req[i], 200) EXCEPT !.index = req[i].block.index,
                                            !.block = req[i].block]
            ELSE Ended(req[i], 500)]
    /\ UNCHANGED <<chain, current_certificates, heap, now, accepted, sealed, call>>

----------------------------------------------------------------------------
(* POST /transactions/new *)

\* values = request.get_json(); the check of the required keys
SubmitReceive(i) ==
    /\ Arrives(i)
    /\ \E n \in Payloads :
        IF AllPresent(Payload(n))
        THEN req' = [req EXCEPT ![i].kind = "submit", ![i].pc = "nc_load",
                                ![i].values = Payload(n)]
        ELSE req' = [req EXCEPT ![i] =
                        Ended([IdleRequest EXCEPT !.kind = "submit",
                                                  !.values = Payload(n)], 400)]
    /\ UNCHANGED <<chain, current_certificates, heap, now, accepted, sealed, call>>

\* new_certificate: self.current_certificates is loaded ...
NewCertificateLoad(i) ==
    /\ req[i].pc = "nc_load"
    /\ req' = [req EXCEPT ![i].pc = "nc_append", ![i].lst = current_certificates,
                          ![i].len_first = Len(chain)]
    /\ UNCHANGED <<chain, current_certificates, heap, now, accepted, sealed, call>>

\* ... and .append({...}) is called on the loaded list
NewCertificateAppend(i) ==
    /\ req[i].pc = "nc_append"
    /\ heap' = AppendCertificate(heap, req[i].lst, req[i].values, i)
    /\ accepted' = Append(accepted, i)
    /\ req' = [req EXCEPT ![i].pc = "nc_ret"]
    /\ UNCHANGED <<chain, current_certificates, now, sealed, call>>

\* return self.last_block['index'] + 1, and the 201 response
NewCertificateReturn(i) ==
    /\ req[i].pc = "nc_ret"
    /\ req' = [req EXCEPT ![i] = [Ended(req[i], 201) EXCEPT
                                        !.index = LastIndexPlusOne(chain),
                                        !.len_last = Len(chain)]]
    /\ UNCHANGED <<chain, current_certificates, heap, now, accepted, sealed, call>>

----------------------------------------------------------------------------
(* GET /chain *)

\* 'chain': certchain.chain (a reference), 'length': len(certchain.chain)
FullChainLength(i) ==
    /\ Arrives(i)
    /\ req' = [req EXCEPT ![i].kind = "chain", ![i].pc = "g_json",
                          ![i].length = Len(chain)]
    /\ UNCHANGED <<chain, current_certificates, heap, now, accepted, sealed, call>>

\* jsonify(response): the chain list is read when it is serialised
FullChainJsonify(i) ==
    /\ req[i].pc = "g_json"
    /\ req' = [req EXCEPT ![i] = [Ended(req[i], 200) EXCEPT
                                        !.length = req[i].length,
                                        !.snapshot = ChainView(chain, heap)]]
    /\ UNCHANGED <<chain, current_certificates, heap, now, accepted, sealed, call>>

----------------------------------------------------------------------------

\* one step of request i
Step(i) ==
    \/ MineReadLast(i)
    \/ MineProofOfWork(i)
    \/ MineHash(i)
    \/ NewBlockIndex(i)
    \/ NewBlockCertificates(i)
    \/ NewBlockReset(i)
    \/ NewBlockAppend(i)
    \/ MineRespond(i)
    \/ SubmitReceive(i)
    \/ NewCertificateLoad(i)
    \/ NewCertificateAppend(i)
    \/ NewCertificateReturn(i)
    \/ FullChainLength(i)
    \/ FullChainJsonify(i)

Next == \E i \in Requests : Step(i)

NextWide == \E i \in WideRequests : Step(i)

Spec == Init /\ [][Next]_vars

\* the same node serving one request more
SpecWide == Init /\ [][NextWide]_vars

----------------------------------------------------------------------------
(* The Certchain methods called directly, one call at a time, by a         *)
(* single-threaded caller (no route is running).                           *)

SampleProofs == {0, 35}

\* previous_hash arguments: 0 and '' (falsy), the genesis sentinel 1, and the
\* hash of the last block
SamplePreviousHashes ==
    {PyInt(0), PyStr(<<>>), PyInt(GenesisPreviousHash), hash(chain[Len(chain)], heap)}

NoRequestRunning == \A i \in WideRequests : req[i].pc = "idle"

\* block = certchain.new_block(proof, previous_hash)
CallNewBlock ==
    /\ NoRequestRunning
    /\ call.n < MaxCalls
    /\ \E proof \in SampleProofs, previous_hash \in SamplePreviousHashes,
          ts \in now..MaxTime :
        LET done == new_block(StoreNow, proof, previous_hash, ts)
            st == done.store
            block == st.chain[Len(st.chain)]
        IN  /\ chain' = st.chain
            /\ current_certificates' = st.current_certificates
            /\ heap' = st.heap
            /\ now' = ts
            /\ sealed' = Append(sealed, BlockView(block, st.heap))
            /\ call' = [n |-> call.n + 1, op |-> "new_block", prev_op |-> call.op,
                        proof |-> proof, previous_hash |-> previous_hash,
                        pre |-> StoreNow, ret_block |-> done.ret, ret_index |-> 0,
                        last_proof |-> 0, ret_proof |-> 0,
                        hashed |-> 0, order |-> <<>>, ret_hash |-> PyStr(<<>>)]
    /\ UNCHANGED <<req, accepted>>

\* block = certchain.new_block(proof): previous_hash takes its default
CallNewBlockDefault ==
    /\ NoRequestRunning
    /\ call.n < MaxCalls
    /\ \E proof \in SampleProofs, ts \in now..MaxTime :
        LET done == new_block(StoreNow, proof, PyInt(DefaultPreviousHash), ts)
            st == done.store
            block == st.chain[Len(st.chain)]
        IN  /\ chain' = st.chain
            /\ current_certificates' = st.current_certificates
            /\ heap' = st.heap
            /\ now' = ts
            /\ sealed' = Append(sealed, BlockView(block, st.heap))
            /\ call' = [n |-> call.n + 1, op |-> "new_block_default",
                        prev_op |-> call.op, proof |-> proof,
                        previous_hash |-> PyInt(DefaultPreviousHash),
                        pre |-> StoreNow, ret_block |-> done.ret, ret_index |-> 0,
                        last_proof |-> 0, ret_proof |-> 0,
                        hashed |-> 0, order |-> <<>>, ret_hash |-> PyStr(<<>>)]
    /\ UNCHANGED <<req, accepted>>

\* index = certchain.new_certificate(...)
CallNewCertificate ==
    /\ NoRequestRunning
    /\ call.n < MaxCalls
    /\ \E n \in {p \in Payloads : AllPresent(Payload(p))} :
        /\ heap' = AppendCertificate(heap, current_certificates, Payload(n),
                                     call.n + 1)
        /\ accepted' = Append(accepted, call.n + 1)
        /\ call' = [n |-> call.n + 1, op |-> "new_certificate", prev_op |-> call.op,
                    proof |-> 0, previous_hash |-> PyInt(0),
                    pre |-> StoreNow, ret_block |-> NoBlock,
                    ret_index |-> LastIndexPlusOne(chain),
                    last_proof |-> 0, ret_proof |-> 0,
                    hashed |-> 0, order |-> <<>>, ret_hash |-> PyStr(<<>>)]
    /\ UNCHANGED <<chain, current_certificates, now, req, sealed>>

\* the last_proof values proof_of_work is called with
SampleLastProofs == (0..MaxLastProof) \cup {GenesisProof}

\* proof = certchain.proof_of_work(last_proof)
CallProofOfWork ==
    /\ NoRequestRunning
    /\ call.n < MaxCalls
    /\ \E last_proof \in SampleLastProofs :
        call' = [n |-> call.n + 1, op |-> "proof_of_work", prev_op |-> call.op,
                 proof |-> 0, previous_hash |-> PyInt(0),
                 pre |-> StoreNow, ret_block |-> NoBlock, ret_index |-> 0,
                 last_proof |-> last_proof,
                 ret_proof |-> proof_of_work(last_proof),
                 hashed |-> 0, order |-> <<>>, ret_hash |-> PyStr(<<>>)]
    /\ UNCHANGED <<chain, current_certificates, heap, now, req, accepted, sealed>>

\* orders in which the five entries of a block dict are inserted
SampleOrders == {<<1, 2, 3, 4, 5>>, <<5, 4, 3, 2, 1>>, <<3, 1, 5, 2, 4>>}

\* certchain.hash(block) of a block equal to chain[k], built in the order q
CallHash ==
    /\ NoRequestRunning
    /\ call.n < MaxCalls
    /\ \E k \in 1..Len(chain), q \in SampleOrders :
        call' = [n |-> call.n + 1, op |-> "hash", prev_op |-> call.op,
                 proof |-> 0, previous_hash |-> PyInt(0),
                 pre |-> StoreNow, ret_block |-> NoBlock, ret_index |-> 0,
                 last_proof |-> 0, ret_proof |-> 0,
                 hashed |-> k, order |-> q,
                 ret_hash |-> hash_items(Reorder(
                     BlockItems(chain[k], heap[chain[k].certificates]), q))]
    /\ UNCHANGED <<chain, current_certificates, heap, now, req, accepted, sealed>>

NextStore == CallNewBlock \/ CallNewBlockDefault \/ CallNewCertificate

SpecStore == Init /\ [][NextStore]_vars

\* proof_of_work called between calls that change the chain and the buffer
NextGate == CallProofOfWork \/ CallNewBlockDefault \/ CallNewCertificate

SpecGate == Init /\ [][NextGate]_vars

\* hash called between calls that change the chain and the buffer
NextHash == CallHash \/ CallNewBlockDefault \/ CallNewCertificate

SpecHash == Init /\ [][NextHash]_vars

----------------------------------------------------------------------------
(* Properties *)

\* the ids of the records a list holds, in order
RECURSIVE Rids(_)
Rids(certs) == IF certs = <<>> THEN <<>> ELSE <<Head(certs).rid>> \o Rids(Tail(certs))

Pending == heap[current_certificates]

Records(k) == heap[chain[k].certificates]

\* the records of blocks 1..k, one block after another
RECURSIVE BlocksRecords(_)
BlocksRecords(k) == IF k = 0 THEN <<>> ELSE BlocksRecords(k - 1) \o Records(k)

\* how often the record with id `r` occurs in a list
Occurrences(r, certs) == Cardinality({k \in 1..Len(certs) : certs[k].rid = r})

\* a /mine request that has read the last block and has not yet appended
InFlight(i) ==
    req[i].pc \in {"m_pow", "m_hash", "nb_index", "nb_certs", "nb_reset", "nb_append"}

\* some new_block call has taken the pending list and not yet appended its block
SealHalfDone == \E i \in WideRequests : req[i].pc \in {"nb_reset", "nb_append"}

\* no method or route has run since construction
Fresh == call.n = 0 /\ NoRequestRunning

\* C1: every block after the first has previous_hash equal to the hash of the
\* block before it on the chain, computed over that block's current contents.
C1_ChainLinkage ==
    \A k \in 2..Len(chain) : chain[k].previous_hash = hash(chain[k - 1], heap)

\* C2: every block after the first has a proof that is valid against the proof
\* of the block before it on the chain.
C2_ProofValidity ==
    \A k \in 2..Len(chain) : valid_proof(chain[k - 1].proof, chain[k].proof)

\* C3: the chain is never empty and the block at position k has index k.
C3_IndexContiguity ==
    /\ Len(chain) >= 1
    /\ \A k \in 1..Len(chain) : chain[k].index = k

\* C4: at most one /mine request at a time is between its read of the last
\* block and the append of its block.
C4_OneSealInFlight == Cardinality({i \in WideRequests : InFlight(i)}) <= 1

\* C5: every accepted record is in exactly one place, once in the pending
\* buffer or once in exactly one block of the chain (looked at whenever no
\* new_block call is between taking the pending list and appending its block).
C5_NoLossNoDuplication ==
    ~SealHalfDone =>
        \A n \in 1..Len(accepted) :
            Occurrences(accepted[n], Pending)
                + Occurrences(accepted[n], BlocksRecords(Len(chain))) = 1

\* C6: the chain reads, block for block and field for field (records included),
\* as each block read at the moment it was appended: blocks keep their place
\* and their contents, and the chain only grows at its end.
C6_AppendOnlyImmutable == ChainView(chain, heap) = sealed

\* C7: a freshly constructed store has exactly one block, with index 1, proof
\* 100, previous_hash 1 and no records, and its pending buffer is empty.
C7_GenesisInvariant ==
    Fresh =>
        /\ Len(chain) = 1
        /\ chain[1].index = 1
        /\ chain[1].proof = 100
        /\ chain[1].previous_hash = PyInt(1)
        /\ Records(1) = <<>>
        /\ Pending = <<>>

C7_FreshStore == Fresh /\ Len(chain) >= 1 /\ sealed = ChainView(chain, heap)

\* what C8 says of a new_block call on chain length n and pending buffer P,
\* but for the previous_hash of the new block
SealEffectButHash ==
    LET n == Len(call.pre.chain)
        P == call.pre.heap[call.pre.current_certificates]
    IN  /\ Len(chain) = n + 1
        /\ SubSeq(chain, 1, n) = call.pre.chain
        /\ chain[n + 1].index = n + 1
        /\ Records(n + 1) = P
        /\ chain[n + 1].proof = call.proof
        /\ Pending = <<>>
        /\ call.ret_block = chain[n + 1]
        /\ call.prev_op = "new_block" =>
              /\ Records(n + 1) = <<>>
              /\ chain[n].index = n

\* C8 (as claimed): new_block(proof, previous_hash) appends exactly one block
\* with index n+1, all pending records, the supplied proof and the supplied
\* previous_hash whatever these two are, empties the pending buffer and returns
\* the block; two calls in a row give a second block with no records.
C8_SealEffect_Claimed ==
    call.op = "new_block" =>
        /\ SealEffectButHash
        /\ chain[Len(chain)].previous_hash = call.previous_hash

\* C8 (amended): as claimed when the supplied previous_hash is truthy; when it
\* is falsy (0, '') the block's previous_hash is the hash of the block that was
\* last on the chain before the call.
C8_SealEffect ==
    call.op = "new_block" =>
        /\ SealEffectButHash
        /\ Truthy(call.previous_hash) =>
              chain[Len(chain)].previous_hash = call.previous_hash
        /\ ~Truthy(call.previous_hash) =>
              chain[Len(chain)].previous_hash =
                  hash(call.pre.chain[Len(call.pre.chain)], call.pre.heap)

\* a new_block call right after another one, the first of them on a non-empty
\* pending buffer, with a falsy and with a truthy previous_hash behind it
C8_TwoSeals ==
    /\ call.op = "new_block"
    /\ call.prev_op = "new_block"
    /\ Len(chain) = 3
    /\ Records(2) # <<>>
    /\ ~Truthy(call.previous_hash)
    /\ chain[2].previous_hash = PyInt(1)

\* C9: the records of the blocks, in chain order, followed by the pending
\* buffer, are the accepted records in the order they were accepted: each
\* block holds the records accepted since the seal before it, in that order
\* (looked at whenever no new_block call is half done).
C9_SubmissionOrdering ==
    ~SealHalfDone =>
        Rids(BlocksRecords(Len(chain))) \o Rids(Pending) = accepted

\* C10: the index a submit returns is the chain length plus 1, for the length
\* the chain had at some moment of the call, and a block that holds the record
\* has that index.
C10_ProspectiveIndex ==
    \A i \in WideRequests :
        (req[i].kind = "submit" /\ req[i].status = 201) =>
            /\ req[i].len_first + 1 <= req[i].index
            /\ req[i].index <= req[i].len_last + 1
            /\ \A k \in 1..Len(chain) :
                  Occurrences(i, Records(k)) > 0 => chain[k].index = req[i].index

\* C11: every /mine request that has ended has ended without error (200) and
\* its response carries the index, records, proof and previous_hash of the
\* block it appended.
C11_SealResult ==
    \A i \in WideRequests :
        (req[i].kind = "mine" /\ req[i].pc = "done") =>
            /\ req[i].status = 200
            /\ req[i].sealed_pos \in 1..Len(chain)
            /\ req[i].block = chain[req[i].sealed_pos]

\* C16: a /mine request that has ended in an error has appended no block: the
\* seal happened completely and was reported as success, or not at all.
C16_NoPartialSeal ==
    \A i \in WideRequests :
        (req[i].kind = "mine" /\ req[i].pc = "done" /\ req[i].status # 200) =>
            req[i].sealed_pos = 0

\* the six fields a record must carry
SixFields ==
    {"certifier", "certifier_name", "recipient", "certificate_id",
     "certificate_name", "expiration_date"}

Lacking(values) == \E k \in SixFields : k \notin DOMAIN values

\* C12: a submit whose body lacks any of the six fields is rejected on receipt
\* with an error, and that step leaves the pending buffer, the chain and every
\* list exactly as they were; the request takes no further step.
C12_MissingFieldRejection ==
    [][\A i \in WideRequests :
          (req[i].pc = "idle" /\ req'[i].kind = "submit" /\ Lacking(req'[i].values)) =>
              /\ req'[i].pc = "done"
              /\ req'[i].status = 400
              /\ UNCHANGED <<chain, current_certificates, heap, accepted>>]_vars

\* a record is pending and a submit lacking a field has been rejected
C12_Rejected ==
    /\ Pending # <<>>
    /\ \E i \in WideRequests :
          /\ req[i].kind = "submit" /\ req[i].pc = "done"
          /\ Lacking(req[i].values) /\ req[i].status = 400

\* dates the claim would accept as valid
ValidDates == {"2030-01-01"}

\* the spec's notion of a well-formed body: six non-empty fields, a numeric
\* certificate_id, a valid expiration_date
WellFormed(values) ==
    /\ ~Lacking(values)
    /\ \A k \in SixFields \ {"certificate_id"} :
          values[k].t = "str" /\ values[k].v # ""
    /\ values["certificate_id"].t = "num"
    /\ values["expiration_date"].v \in ValidDates

\* C13: a submit whose six fields are present but malformed is never buffered
\* and does not end in success.
C13_MalformedFieldRejection ==
    \A i \in WideRequests :
        (req[i].kind = "submit" /\ ~Lacking(req[i].values)
                                /\ ~WellFormed(req[i].values)) =>
            /\ \A n \in 1..Len(accepted) : accepted[n] # i
            /\ req[i].pc = "done" => req[i].status = 400

\* C15: the length a /chain response reports is the number of blocks in the
\* chain the same response carries.
C15_ConsistentSnapshot ==
    \A i \in WideRequests :
        (req[i].kind = "chain" /\ req[i].pc = "done") =>
            req[i].length = Len(req[i].snapshot)

\* C20: after new_block is called without previous_hash on a non-empty chain,
\* the appended block's previous_hash is the hash of the block that was last.
C20_DefaultLinkage ==
    (call.op = "new_block_default" /\ Len(call.pre.chain) > 0) =>
        chain[Len(chain)].previous_hash =
            hash(call.pre.chain[Len(call.pre.chain)], call.pre.heap)

\* C14: proof_of_work returns a candidate that passes the gate for last_proof
\* while no smaller natural number does (the least one, so the candidates
\* 0, 1, 2, ... in order and the same result for the same input), and the call
\* leaves the chain, the pending buffer and every list as they were.
C14_FindProof ==
    call.op = "proof_of_work" =>
        /\ call.ret_proof \in Nat
        /\ valid_proof(call.last_proof, call.ret_proof)
        /\ \A n \in 0..(call.ret_proof - 1) : ~valid_proof(call.last_proof, n)
        /\ StoreNow = call.pre

\* proof_of_work has searched past 0 on a chain that has grown
C14_Searched ==
    /\ call.op = "proof_of_work"
    /\ call.ret_proof > 0
    /\ Len(chain) > 1

\* C17: hash depends only on the field values of the block: whatever the order
\* in which the block's entries were inserted the digest is the same, it is
\* the digest of the block as the chain holds it, and the call leaves the
\* chain, the pending buffer and every list as they were.
C17_HashDeterminism ==
    call.op = "hash" =>
        LET b == chain[call.hashed]
            items == BlockItems(b, Records(call.hashed))
        IN  /\ \A q \in Permutations(1..Len(items)) :
                  hash_items(Reorder(items, q)) = call.ret_hash
            /\ call.ret_hash = hash(b, heap)
            /\ StoreNow = call.pre

\* a block holding a record has been hashed from a dict built in another order
C17_Reordered ==
    /\ call.op = "hash"
    /\ call.order # <<1, 2, 3, 4, 5>>
    /\ Records(call.hashed) # <<>>

\* C18: when a /mine request that has overlapped no other /mine request
\* appends its block, the block's proof is proof_of_work of the proof of the
\* block that was last when the request started, its previous_hash is the
\* hash of that block, and that block is the one just before it on the chain.
C18_SequentialOrchestration ==
    [][\A i \in WideRequests :
          (req[i].pc = "nb_append" /\ req'[i].pc = "m_resp" /\ ~req'[i].overlapped) =>
              LET b == chain'[Len(chain')]
                  last == req[i].last_block
              IN  /\ Len(chain') = last + 1
                  /\ b.proof = proof_of_work(chain'[last].proof)
                  /\ b.previous_hash = hash(chain'[last], heap')]_vars

\* the ids of the records accepted and not yet in a block of the chain
AcceptedOffChain ==
    {accepted[n] : n \in 1..Len(accepted)} \
        {BlocksRecords(Len(chain))[n].rid : n \in 1..Len(BlocksRecords(Len(chain)))}

\* C19: when a /mine request takes the pending list for its block, every
\* record accepted so far and not yet on the chain is in the list of that
\* block: none is held over for a later block.
C19_AcceptedBeforeSeal ==
    [][\A i \in WideRequests :
          (req[i].pc = "nb_certs" /\ req'[i].pc = "nb_reset") =>
              \A r \in AcceptedOffChain :
                  Occurrences(r, heap'[req'[i].block.certificates]) > 0]_vars

\* a submit has been accepted while a /mine request was searching for its proof
C19_AcceptedDuringSearch ==
    /\ accepted # <<>>
    /\ \E i \in WideRequests :
          /\ req[i].pc = "m_pow"
          /\ Occurrences(accepted[Len(accepted)], Pending) > 0
          /\ accepted[Len(accepted)] > i

====
